---- MODULE Spec2Model ----
(***************************************************************************)
(* A model of fipy/meshes/numMesh/gmshImport.py: the face derivation of    *)
(* MshFile._deriveCellsAndFaces, the partition classification of           *)
(* PartedMshFile._parseElementFile and the construction sequence of        *)
(* MshFile.__init__ (header, version check, section isolation).            *)
(*                                                                         *)
(* Python lists and numpy arrays are 0-based; the sequences below are      *)
(* 1-based, so a Python index i is the sequence index i + 1.  The loop     *)
(* counters cellIdx and faceIdx keep their Python (0-based) values.        *)
(***************************************************************************)
EXTENDS Integers, Sequences, FiniteSets, TLC

(* ---------------------------------------------------------------------- *)
(* Bounds of the model                                                     *)
(* ---------------------------------------------------------------------- *)
MaxVert == 4
MaxCells == 2
NProc == 2
MaxElems == 2
MaxGhostTags == 2
MaxSectionLines == 1

VARIABLES
    pc,
    dimensions,
    cellsToVertIDs,
    shapeTypes,
    numCells,
    maxFaces,
    cellIdx,
    faceIdx,
    faces,
    currNumFaces,
    cellsToFaces,
    facesDict,
    uniqueFaces,
    facesToVOut,
    cellsToFOut,
    elemsFile,
    part,
    cls,
    fLines,
    fPos,
    gmshStderr,
    version,
    title,
    newF,
    nodesFile,
    coordDimensions,
    cellsToGmshVerts,
    allVerts,
    nodeCount,
    nodePos,
    vertexCoords,
    vertexToIdx,
    vertGIDtoIdx

deriveVars == <<dimensions, cellsToVertIDs, shapeTypes, numCells, maxFaces,
                cellIdx, faceIdx, faces, currNumFaces, cellsToFaces,
                facesDict, uniqueFaces, facesToVOut, cellsToFOut>>

partedVars == <<elemsFile, part>>

ctorVars == <<cls, fLines, fPos, gmshStderr, version, title, newF, nodesFile>>

vertVars == <<coordDimensions, cellsToGmshVerts, allVerts, nodeCount, nodePos,
              vertexCoords, vertexToIdx, vertGIDtoIdx>>

vars == <<pc, deriveVars, partedVars, ctorVars, vertVars>>

(* The vertex passes have not been entered.                                *)
VertsIdle ==
    /\ coordDimensions = 2
    /\ cellsToGmshVerts = <<>>
    /\ allVerts = <<>>
    /\ nodeCount = 0
    /\ nodePos = 0
    /\ vertexCoords = <<>>
    /\ vertexToIdx = <<>>
    /\ vertGIDtoIdx = <<>>

(* ---------------------------------------------------------------------- *)
(* Python built-ins used by the code                                       *)
(* ---------------------------------------------------------------------- *)
Range(s) == {s[i] : i \in DOMAIN s}

SetMax(S) == CHOOSE m \in S : \A x \in S : x <= m

RECURSIVE Insert(_, _)
Insert(x, s) ==
    IF s = <<>> THEN <<x>>
    ELSE IF x <= Head(s) THEN <<x>> \o s
    ELSE <<Head(s)>> \o Insert(x, Tail(s))

RECURSIVE sorted(_)
sorted(s) == IF s = <<>> THEN <<>> ELSE Insert(Head(s), sorted(Tail(s)))

Digit(d) == <<"0", "1", "2", "3", "4", "5", "6", "7", "8", "9">>[d + 1]

RECURSIVE StrNat(_)
StrNat(n) == IF n < 10 THEN <<Digit(n)>>
             ELSE StrNat(n \div 10) \o <<Digit(n % 10)>>

str(n) == IF n < 0 THEN <<"-">> \o StrNat(0 - n) ELSE StrNat(n)

RECURSIVE join(_, _)
join(sep, parts) ==
    IF parts = <<>> THEN <<>>
    ELSE IF Len(parts) = 1 THEN Head(parts)
    ELSE Head(parts) \o sep \o join(sep, Tail(parts))

(* s[lo:hi] and s[lo:] of a Python list, lo and hi 0-based                 *)
Slice(s, lo, hi) == SubSeq(s, lo + 1, IF hi < Len(s) THEN hi ELSE Len(s))

SliceFrom(s, lo) == SubSeq(s, lo + 1, Len(s))

Reverse(s) == [i \in 1..Len(s) |-> s[Len(s) + 1 - i]]

(* ---------------------------------------------------------------------- *)
(* MshFile                                                                 *)
(* ---------------------------------------------------------------------- *)
numFacesForShapeTetThree(dims) ==
    IF dims = 2 THEN (2 :> 3) @@ (3 :> 4)
    ELSE (4 :> 3)

numFacesForShape(dims) ==
    IF dims = 2 THEN (2 :> 3) @@ (3 :> 4)
    ELSE (4 :> 4)

(* _extractFaces: the inner loop appends cell[(i + j) % len(cell)] for      *)
(* j = 0..faceLen-1, the outer loop appends one face for i = 0..facesPerCell-1. *)
(* int(...) leaves the integral vertex indices unchanged.                   *)
RECURSIVE aFaceLoop(_, _, _, _, _)
aFaceLoop(i, j, faceLen, cell, aFace) ==
    IF j >= faceLen THEN aFace
    ELSE LET aVertex == (i + j) % Len(cell)
         IN aFaceLoop(i, j + 1, faceLen, cell, Append(aFace, cell[aVertex + 1]))

RECURSIVE aFaceLoopNoWrap(_, _, _, _, _)
aFaceLoopNoWrap(i, j, faceLen, cell, aFace) ==
    IF j >= faceLen THEN aFace
    ELSE LET aVertex == IF i + j < Len(cell) THEN i + j ELSE Len(cell) - 1
         IN aFaceLoopNoWrap(i, j + 1, faceLen, cell, Append(aFace, cell[aVertex + 1]))

RECURSIVE facesLoop(_, _, _, _, _)
facesLoop(i, faceLen, facesPerCell, cell, fs) ==
    IF i >= facesPerCell THEN fs
    ELSE facesLoop(i + 1, faceLen, facesPerCell, cell,
                   Append(fs, aFaceLoop(i, 0, faceLen, cell, <<>>)))

RECURSIVE facesLoopNoWrap(_, _, _, _, _)
facesLoopNoWrap(i, faceLen, facesPerCell, cell, fs) ==
    IF i >= facesPerCell THEN fs
    ELSE facesLoopNoWrap(i + 1, faceLen, facesPerCell, cell,
                         Append(fs, aFaceLoopNoWrap(i, 0, faceLen, cell, <<>>)))

extractFacesNoWrap(faceLen, facesPerCell, cell) ==
    facesLoopNoWrap(0, faceLen, facesPerCell, cell, <<>>)

extractFaces(faceLen, facesPerCell, cell) ==
    facesLoop(0, faceLen, facesPerCell, cell, <<>>)

(* keyStr = ' '.join([str(x) for x in sorted(currFace)])                    *)
KeyStrNoSort(currFace) ==
    join(<<" ">>, [i \in DOMAIN currFace |-> str(currFace[i])])

KeyStr(currFace) == join(<<" ">>, [i \in DOMAIN currFace |-> str(sorted(currFace)[i])])

formatForFiPy(arr, width) ==
    [r \in 1..width |-> [c \in 1..Len(arr) |-> arr[c][width + 1 - r]]]

(* ---------------------------------------------------------------------- *)
(* Inputs of _deriveCellsAndFaces                                          *)
(* ---------------------------------------------------------------------- *)
VertIdxs == 0..(MaxVert - 1)

numVertsForShape == (2 :> 3) @@ (3 :> 4) @@ (4 :> 4)

(* Vertex lists of a cell: n pairwise distinct vertex indices, written from *)
(* the smallest one on and then in ascending or in descending order (one    *)
(* list per rotation, both orientations), and, since the code never         *)
(* compares the length of a vertex list with the shape kind, the list       *)
(* 0, 1, .. that is one vertex short.                                       *)
VertLists(n) ==
    {s \in [1..n -> VertIdxs] :
        /\ \A i \in 2..n : s[1] < s[i]
        /\ \/ \A i, j \in 2..n : i < j => s[i] < s[j]
           \/ \A i, j \in 2..n : i < j => s[i] > s[j]}

ShortVertLists(n) == {[i \in 1..n |-> i - 1]}

CellInputs(dims) ==
    UNION {{<<sh, vl>> : vl \in VertLists(numVertsForShape[sh])
                              \cup ShortVertLists(numVertsForShape[sh] - 1)}
           : sh \in DOMAIN numFacesForShape(dims)}

DeriveInit ==
    /\ VertsIdle
    /\ pc = "derive"
    /\ dimensions \in {2, 3}
    /\ numCells \in 0..MaxCells
    /\ \E cs \in [1..numCells -> CellInputs(dimensions)] :
          /\ cellsToVertIDs = [i \in 1..numCells |-> cs[i][2]]
          /\ shapeTypes = [i \in 1..numCells |-> cs[i][1]]
    /\ maxFaces = 0
    /\ cellIdx = 0
    /\ faceIdx = 0
    /\ faces = <<>>
    /\ currNumFaces = 0
    /\ cellsToFaces = <<>>
    /\ facesDict = <<>>
    /\ uniqueFaces = <<>>
    /\ facesToVOut = <<>>
    /\ cellsToFOut = <<>>
    /\ elemsFile = <<>>
    /\ part = <<>>
    /\ cls = "MshFile"
    /\ fLines = <<>>
    /\ fPos = 0
    /\ gmshStderr = <<>>
    /\ version = <<>>
    /\ title = ""
    /\ newF = <<>>
    /\ nodesFile = <<>>

(* ---------------------------------------------------------------------- *)
(* MshFile._deriveCellsAndFaces                                            *)
(* ---------------------------------------------------------------------- *)
(* The table allocated with zeros instead of -1.                           *)
DeriveStartZeroPadded ==
    /\ pc = "derive"
    /\ numCells > 0
    /\ maxFaces' = SetMax({numFacesForShape(dimensions)[x] : x \in Range(shapeTypes)})
    /\ currNumFaces' = 0
    /\ cellsToFaces' = [c \in 1..numCells |-> [f \in 1..maxFaces' |-> 0]]
    /\ facesDict' = <<>>
    /\ uniqueFaces' = <<>>
    /\ cellIdx' = 0
    /\ pc' = "cell"
    /\ UNCHANGED <<dimensions, cellsToVertIDs, shapeTypes, numCells, faceIdx,
                   faces, facesToVOut, cellsToFOut>>
    /\ UNCHANGED <<partedVars, ctorVars, vertVars>>

DeriveStart ==
    /\ pc = "derive"
    /\ numCells > 0
    /\ maxFaces' = SetMax({numFacesForShape(dimensions)[x] : x \in Range(shapeTypes)})
    /\ currNumFaces' = 0
    /\ cellsToFaces' = [c \in 1..numCells |-> [f \in 1..maxFaces' |-> -1]]
    /\ facesDict' = <<>>
    /\ uniqueFaces' = <<>>
    /\ cellIdx' = 0
    /\ pc' = "cell"
    /\ UNCHANGED <<dimensions, cellsToVertIDs, shapeTypes, numCells, faceIdx,
                   faces, facesToVOut, cellsToFOut>>
    /\ UNCHANGED <<partedVars, ctorVars, vertVars>>

DeriveEmpty ==
    /\ pc = "derive"
    /\ numCells = 0
    /\ pc' = "ValueError"
    /\ UNCHANGED <<deriveVars, partedVars, ctorVars, vertVars>>

DeriveCell ==
    /\ pc = "cell"
    /\ cellIdx < numCells
    /\ faces' = extractFaces(dimensions,
                             numFacesForShape(dimensions)[shapeTypes[cellIdx + 1]],
                             cellsToVertIDs[cellIdx + 1])
    /\ faceIdx' = 0
    /\ pc' = "face"
    /\ UNCHANGED <<dimensions, cellsToVertIDs, shapeTypes, numCells, maxFaces,
                   cellIdx, currNumFaces, cellsToFaces, facesDict, uniqueFaces,
                   facesToVOut, cellsToFOut>>
    /\ UNCHANGED <<partedVars, ctorVars, vertVars>>

NextFace ==
    IF faceIdx + 1 < numFacesForShape(dimensions)[shapeTypes[cellIdx + 1]]
    THEN /\ faceIdx' = faceIdx + 1
         /\ cellIdx' = cellIdx
         /\ pc' = "face"
    ELSE /\ faceIdx' = faceIdx
         /\ cellIdx' = cellIdx + 1
         /\ pc' = "cell"

(* The known-face branch storing the running count, as the new-face branch does. *)
DeriveFaceSeenCountStored ==
    /\ pc = "face"
    /\ LET currFace == faces[faceIdx + 1]
           keyStr == KeyStr(currFace)
       IN /\ keyStr \in DOMAIN facesDict
          /\ cellsToFaces' = [cellsToFaces EXCEPT ![cellIdx + 1][faceIdx + 1] = currNumFaces]
    /\ NextFace
    /\ UNCHANGED <<dimensions, cellsToVertIDs, shapeTypes, numCells, maxFaces,
                   faces, currNumFaces, facesDict, uniqueFaces,
                   facesToVOut, cellsToFOut>>
    /\ UNCHANGED <<partedVars, ctorVars, vertVars>>

DeriveFaceSeen ==
    /\ pc = "face"
    /\ LET currFace == faces[faceIdx + 1]
           keyStr == KeyStr(currFace)
       IN /\ keyStr \in DOMAIN facesDict
          /\ cellsToFaces' = [cellsToFaces EXCEPT ![cellIdx + 1][faceIdx + 1] = facesDict[keyStr]]
    /\ NextFace
    /\ UNCHANGED <<dimensions, cellsToVertIDs, shapeTypes, numCells, maxFaces,
                   faces, currNumFaces, facesDict, uniqueFaces,
                   facesToVOut, cellsToFOut>>
    /\ UNCHANGED <<partedVars, ctorVars, vertVars>>

(* The new-face branch storing the sorted face.                             *)
DeriveFaceNewSortedStored ==
    /\ pc = "face"
    /\ LET currFace == faces[faceIdx + 1]
           keyStr == KeyStr(currFace)
       IN /\ keyStr \notin DOMAIN facesDict
          /\ facesDict' = facesDict @@ (keyStr :> currNumFaces)
          /\ cellsToFaces' = [cellsToFaces EXCEPT ![cellIdx + 1][faceIdx + 1] = currNumFaces]
          /\ uniqueFaces' = Append(uniqueFaces, sorted(currFace))
          /\ currNumFaces' = currNumFaces + 1
    /\ NextFace
    /\ UNCHANGED <<dimensions, cellsToVertIDs, shapeTypes, numCells, maxFaces,
                   faces, facesToVOut, cellsToFOut>>
    /\ UNCHANGED <<partedVars, ctorVars, vertVars>>

DeriveFaceNew ==
    /\ pc = "face"
    /\ LET currFace == faces[faceIdx + 1]
           keyStr == KeyStr(currFace)
       IN /\ keyStr \notin DOMAIN facesDict
          /\ facesDict' = facesDict @@ (keyStr :> currNumFaces)
          /\ cellsToFaces' = [cellsToFaces EXCEPT ![cellIdx + 1][faceIdx + 1] = currNumFaces]
          /\ uniqueFaces' = Append(uniqueFaces, currFace)
          /\ currNumFaces' = currNumFaces + 1
    /\ NextFace
    /\ UNCHANGED <<dimensions, cellsToVertIDs, shapeTypes, numCells, maxFaces,
                   faces, facesToVOut, cellsToFOut>>
    /\ UNCHANGED <<partedVars, ctorVars, vertVars>>

DeriveReturn ==
    /\ pc = "cell"
    /\ cellIdx = numCells
    /\ facesToVOut' = formatForFiPy(uniqueFaces, dimensions)
    /\ cellsToFOut' = formatForFiPy(cellsToFaces, maxFaces)
    /\ pc' = "derived"
    /\ UNCHANGED <<dimensions, cellsToVertIDs, shapeTypes, numCells, maxFaces,
                   cellIdx, faceIdx, faces, currNumFaces, cellsToFaces,
                   facesDict, uniqueFaces>>
    /\ UNCHANGED <<partedVars, ctorVars, vertVars>>

DeriveNext ==
    \/ DeriveStart
    \/ DeriveEmpty
    \/ DeriveCell
    \/ DeriveFaceSeen
    \/ DeriveFaceNew
    \/ DeriveReturn

Spec == DeriveInit /\ [][DeriveNext]_vars

(* ---------------------------------------------------------------------- *)
(* Inputs of PartedMshFile._parseElementFile: the element block            *)
(* ---------------------------------------------------------------------- *)
ProcIDs == 0..(NProc - 1)

(* pid = parallel.procID + 1                                               *)
pidOfNoOffset(procID) == procID

pidOf(procID) == procID + 1

(* The partition numbers gmsh writes into the tags.                         *)
Pids == 1..NProc

(* The negative run of the reversed tags: at most MaxGhostTags ghost       *)
(* partitions, listed by increasing partition number.                      *)
GhostRuns ==
    {r \in UNION {[1..n -> {0 - q : q \in Pids}] : n \in 0..MaxGhostTags} :
        \A i, j \in 1..Len(r) : i < j => r[i] > r[j]}

(* Reversed tag lists: a negative run followed by the owning partition,    *)
(* an element of a partition that no process runs, and two lists without   *)
(* an owner (no tag at all, a lone ghost tag).                             *)
RevTagLists ==
    {r \o <<o>> : r \in GhostRuns, o \in Pids}
        \cup {<<NProc + 1>>} \cup {<<>>, <<-1>>}

VertsOfLine(k, elemType) ==
    IF elemType = 1 THEN <<k, k + 1>> ELSE <<k, k + 1, k + 2>>

(* elementID shapeCode tagCount tag_1..tag_n vertexID_1..vertexID_k, the   *)
(* k-th line carrying the element number k.  Shape code 1 is a line (never *)
(* a cell), 2 a triangle.                                                  *)
ElemLine(k, elemType, revTags) ==
    <<k, elemType, Len(revTags)>> \o Reverse(revTags) \o VertsOfLine(k, elemType)

(* Shape code and reversed tags of a line.                                 *)
LineKinds == {<<1, (<<1>>)>>} \cup {<<2, rt>> : rt \in RevTagLists}

ElemFiles(n) ==
    {[k \in 1..n |-> ElemLine(k, g[k][1], g[k][2])] : g \in [1..n -> LineKinds]}

NewPart ==
    [cellsToVertIDs |-> <<>>, gCellsToVertIDs |-> <<>>,
     shapeTypes |-> <<>>, gShapeTypes |-> <<>>,
     numCells |-> 0, numGhostCells |-> 0,
     cellIDMap |-> <<>>, ghostCellIDMap |-> <<>>,
     IDOffset |-> -1,
     pos |-> 0, pc |-> "parse"]

PartedInit ==
    /\ VertsIdle
    /\ pc = "parted"
    /\ dimensions = 2
    /\ \E n \in 0..MaxElems : elemsFile \in ElemFiles(n)
    /\ part = [r \in ProcIDs |-> NewPart]
    /\ cls = "MshFile"
    /\ fLines = <<>>
    /\ fPos = 0
    /\ gmshStderr = <<>>
    /\ version = <<>>
    /\ title = ""
    /\ newF = <<>>
    /\ nodesFile = <<>>
    /\ cellsToVertIDs = <<>>
    /\ shapeTypes = <<>>
    /\ numCells = 0
    /\ maxFaces = 0
    /\ cellIdx = 0
    /\ faceIdx = 0
    /\ faces = <<>>
    /\ currNumFaces = 0
    /\ cellsToFaces = <<>>
    /\ facesDict = <<>>
    /\ uniqueFaces = <<>>
    /\ facesToVOut = <<>>
    /\ cellsToFOut = <<>>

(* ---------------------------------------------------------------------- *)
(* PartedMshFile._parseElementFile                                         *)
(* ---------------------------------------------------------------------- *)
(* The tag scan of one element: `if tags[0] < 0: while tags[0] < 0: ...`.  *)
(* It ends with the ghost tag of pid still at the head (break), with the   *)
(* first non-negative tag at the head, or on an empty list (IndexError).   *)
RECURSIVE scanTags(_, _)
scanTags(tags, pid) ==
    IF tags = <<>> THEN [err |-> TRUE, ghost |-> FALSE, tags |-> tags]
    ELSE IF tags[1] < 0
         THEN IF (tags[1] * (-1)) = pid
              THEN [err |-> FALSE, ghost |-> TRUE, tags |-> tags]
              ELSE scanTags(Tail(tags), pid)
         ELSE [err |-> FALSE, ghost |-> FALSE, tags |-> tags]

(* _addCell, curried on the ghost lists or on the non-ghost lists.         *)
addCellTo(st, ghostLists, currLine, numTags, elT, IDoff) ==
    IF ghostLists
    THEN [st EXCEPT !.gCellsToVertIDs = Append(@, SliceFrom(currLine, numTags + 3)),
                    !.gShapeTypes = Append(@, elT),
                    !.ghostCellIDMap = Append(@, currLine[1] - IDoff)]
    ELSE [st EXCEPT !.cellsToVertIDs = Append(@, SliceFrom(currLine, numTags + 3)),
                    !.shapeTypes = Append(@, elT),
                    !.cellIDMap = Append(@, currLine[1] - IDoff)]

(* addGhostCell and addCell: the lambdas read IDOffset when they are       *)
(* called, i.e. the value the loop body has just established.              *)
addGhostCellWrongLists(st, currLine, numTags, elT) ==
    addCellTo(st, FALSE, currLine, numTags, elT, st.IDOffset)

addGhostCell(st, currLine, numTags, elT) ==
    addCellTo(st, TRUE, currLine, numTags, elT, st.IDOffset)

addCellEarlyBound(st, currLine, numTags, elT) ==
    addCellTo(st, FALSE, currLine, numTags, elT, -1)

addCell(st, currLine, numTags, elT) ==
    addCellTo(st, FALSE, currLine, numTags, elT, st.IDOffset)

CurrLine(r) == elemsFile[part[r].pos + 1]

Supported(line) == line[2] \in DOMAIN numFacesForShape(dimensions)

RevTags(line) == Reverse(Slice(line, 3, 3 + line[3]))

(* The partitions share nothing but the element block, which they only     *)
(* read: their runs are taken one after the other, in rank order.          *)
Turn(r) == \A q \in ProcIDs : q < r => part[q].pc # "parse"

Reading(r) == Turn(r) /\ part[r].pc = "parse" /\ part[r].pos < Len(elemsFile)

(* An element whose shape is not recognized.                               *)
ParseSkip(r) ==
    /\ pc = "parted"
    /\ Reading(r)
    /\ ~Supported(CurrLine(r))
    /\ part' = [part EXCEPT ![r].pos = @ + 1]
    /\ UNCHANGED <<pc, deriveVars, elemsFile, ctorVars, vertVars>>

(* An element of a recognized shape: offset, tag scan, bookkeeping.        *)
ParseCell(r) ==
    /\ pc = "parted"
    /\ Reading(r)
    /\ Supported(CurrLine(r))
    /\ LET pid == pidOf(r)
           currLineInts == CurrLine(r)
           elemType == currLineInts[2]
           numTags == currLineInts[3]
           st0 == IF part[r].IDOffset = -1
                  THEN [part[r] EXCEPT !.IDOffset = currLineInts[1]]
                  ELSE part[r]
           scan == scanTags(RevTags(currLineInts), pid)
           st1 == IF scan.ghost
                  THEN [addGhostCell(st0, currLineInts, numTags, elemType)
                            EXCEPT !.numGhostCells = @ + 1]
                  ELSE st0
           st2 == IF scan.tags[1] = pid
                  THEN [addCell(st1, currLineInts, numTags, elemType)
                            EXCEPT !.numCells = @ + 1]
                  ELSE st1
       IN /\ ~scan.err
          /\ part' = [part EXCEPT ![r] = [st2 EXCEPT !.pos = @ + 1]]
    /\ UNCHANGED <<pc, deriveVars, elemsFile, ctorVars, vertVars>>

(* tags[0] on an empty list: no tag at all, or only ghost tags of others.  *)
ParseIndexError(r) ==
    /\ pc = "parted"
    /\ Reading(r)
    /\ Supported(CurrLine(r))
    /\ scanTags(RevTags(CurrLine(r)), pidOf(r)).err
    /\ part' = [part EXCEPT ![r].pc = "IndexError"]
    /\ UNCHANGED <<pc, deriveVars, elemsFile, ctorVars, vertVars>>

(* End of the element block: the two dicts are returned.                   *)
ParseReturn(r) ==
    /\ pc = "parted"
    /\ Turn(r)
    /\ part[r].pc = "parse"
    /\ part[r].pos = Len(elemsFile)
    /\ part' = [part EXCEPT ![r].pc = "parsed"]
    /\ UNCHANGED <<pc, deriveVars, elemsFile, ctorVars, vertVars>>

PartedNext ==
    \E r \in ProcIDs :
        \/ ParseSkip(r)
        \/ ParseCell(r)
        \/ ParseIndexError(r)
        \/ ParseReturn(r)

SpecParted == PartedInit /\ [][PartedNext]_vars

(* ---------------------------------------------------------------------- *)
(* Inputs of MshFile.__init__: the .msh file and the installed gmsh        *)
(* ---------------------------------------------------------------------- *)
(* A line is its text when it is a section marker and its numeric fields   *)
(* otherwise.  Version numbers are counted in tenths: 2.5 is 25.           *)
Marker(text) == [text |-> text, nums |-> <<>>]

Numbers(nums) == [text |-> "", nums |-> nums]

NoLine == [text |-> "", nums |-> <<>>]

(* A section: absent, opened and never closed, or complete.                *)
SectionKinds == {"absent", "open", "complete"}

Section(name, kind) ==
    IF kind = "absent" THEN <<>>
    ELSE <<Marker("$" \o name), Numbers(<<MaxSectionLines>>)>>
         \o [i \in 1..MaxSectionLines |-> Numbers(<<i, 0, 0, 0>>)]
         \o (IF kind = "complete" THEN <<Marker("$End" \o name)>> ELSE <<>>)

FormatKinds == {"absent", "headerOnly", "complete"}

FormatSection(kind, ver) ==
    IF kind = "absent" THEN <<>>
    ELSE IF kind = "headerOnly" THEN <<Marker("$MeshFormat")>>
    ELSE <<Marker("$MeshFormat"), Numbers(<<ver, 0, 8>>), Marker("$EndMeshFormat")>>

FileVersions == {19, 20, 22, 25}

(* First stderr line of `gmsh --version`, as the matches of \d+.\d+ in it:  *)
(* one version number, or none (gmsh is not installed).                    *)
ToolOutputs == {<<>>} \cup {<<v>> : v \in {19, 20, 24, 25}}

CtorInit ==
    /\ VertsIdle
    /\ pc = "getMetaData"
    /\ cls \in {"MshFile", "PartedMshFile"}
    /\ \E fk \in FormatKinds, ver \in FileVersions, nk, ek \in SectionKinds :
          fLines = FormatSection(fk, ver) \o Section("Nodes", nk) \o Section("Elements", ek)
    /\ fPos = 0
    /\ gmshStderr \in ToolOutputs
    /\ version = <<>>
    /\ title = "MeshFormat"
    /\ newF = <<>>
    /\ nodesFile = <<>>
    /\ elemsFile = <<>>
    /\ part = <<>>
    /\ dimensions = 2
    /\ cellsToVertIDs = <<>>
    /\ shapeTypes = <<>>
    /\ numCells = 0
    /\ maxFaces = 0
    /\ cellIdx = 0
    /\ faceIdx = 0
    /\ faces = <<>>
    /\ currNumFaces = 0
    /\ cellsToFaces = <<>>
    /\ facesDict = <<>>
    /\ uniqueFaces = <<>>
    /\ facesToVOut = <<>>
    /\ cellsToFOut = <<>>

(* ---------------------------------------------------------------------- *)
(* MshFile.__init__ and the methods it calls                               *)
(* ---------------------------------------------------------------------- *)
(* f.readline(): the next line, or the empty string at end of file.        *)
readline == IF fPos < Len(fLines) THEN fLines[fPos + 1] ELSE NoLine

AtEOF == fPos >= Len(fLines)

(* `needle in line`: the lines of the model hold a marker or numbers.      *)
Contains(line, needle) == line.text = needle

Seeking == pc \in {"getMetaData", "seekForHeader"}

(* _seekForHeader: the line read is empty (end of file)                    *)
SeekEOF ==
    /\ Seeking
    /\ AtEOF
    /\ pc' = "EOFError"
    /\ UNCHANGED <<vertVars, deriveVars, partedVars, cls, fLines, fPos, gmshStderr,
                   version, title, newF, nodesFile>>

(* _seekForHeader: the header is not in the line                           *)
SeekContinue ==
    /\ Seeking
    /\ ~AtEOF
    /\ ~Contains(readline, "$" \o title)
    /\ fPos' = fPos + 1
    /\ UNCHANGED <<pc, vertVars, deriveVars, partedVars, cls, fLines, gmshStderr,
                   version, title, newF, nodesFile>>

(* _seekForHeader: found header                                            *)
SeekFound ==
    /\ Seeking
    /\ ~AtEOF
    /\ Contains(readline, "$" \o title)
    /\ fPos' = fPos + 1
    /\ pc' = IF pc = "getMetaData" THEN "readMetaData" ELSE "isolateData"
    /\ UNCHANGED <<vertVars, deriveVars, partedVars, cls, fLines, gmshStderr,
                   version, title, newF, nodesFile>>

(* _getMetaData: the line after the header gives version, file type and    *)
(* data size; the file is rewound.                                         *)
GetMetaData ==
    /\ pc = "readMetaData"
    /\ Len(readline.nums) = 3
    /\ version' = <<readline.nums[1]>>
    /\ fPos' = 0
    /\ pc' = "checkGmshVersion"
    /\ UNCHANGED <<vertVars, deriveVars, partedVars, cls, fLines, gmshStderr,
                   title, newF, nodesFile>>

(* The line after the header does not hold three numbers.                  *)
GetMetaDataFails ==
    /\ pc = "readMetaData"
    /\ Len(readline.nums) # 3
    /\ pc' = "ValueError"
    /\ UNCHANGED <<vertVars, deriveVars, partedVars, cls, fLines, fPos, gmshStderr,
                   version, title, newF, nodesFile>>

(* minVersion=2 of MshFile._checkGmshVersion, 2.5 of PartedMshFile's.      *)
minVersion(c) == IF c = "MshFile" THEN 20 ELSE 25

(* m.group(0) >= minVersion compares a str with a number: in Python 2 a    *)
(* number is smaller than any string, whatever the two values are.         *)
strGeNumber(verStr, num) == TRUE

(* `if m and m.group(0) >= minVersion`                                     *)
versionAccepted ==
    /\ gmshStderr # <<>>
    /\ strGeNumber(gmshStderr[1], minVersion(cls))

CheckGmshVersion ==
    /\ pc = "checkGmshVersion"
    /\ versionAccepted
    /\ title' = "Nodes"
    /\ newF' = <<>>
    /\ pc' = "seekForHeader"
    /\ UNCHANGED <<vertVars, deriveVars, partedVars, cls, fLines, fPos, gmshStderr,
                   version, nodesFile>>

CheckGmshVersionRaises ==
    /\ pc = "checkGmshVersion"
    /\ ~versionAccepted
    /\ pc' = "EnvironmentError"
    /\ UNCHANGED <<vertVars, deriveVars, partedVars, cls, fLines, fPos, gmshStderr,
                   version, title, newF, nodesFile>>

(* _isolateData: a line without the end marker is written to the new      *)
(* file; at end of file the line is the empty string, which has no end     *)
(* marker either.                                                          *)
IsolateCopy ==
    /\ pc = "isolateData"
    /\ ~Contains(readline, "$End" \o title)
    /\ newF' = IF AtEOF THEN newF ELSE Append(newF, readline)
    /\ fPos' = IF AtEOF THEN fPos ELSE fPos + 1
    /\ UNCHANGED <<pc, vertVars, deriveVars, partedVars, cls, fLines, gmshStderr,
                   version, title, nodesFile>>

(* _isolateData: the end marker; both files are rewound.  __init__ stores  *)
(* the new file and goes on with the next section.                         *)
IsolateNodesEnd ==
    /\ pc = "isolateData"
    /\ title = "Nodes"
    /\ Contains(readline, "$End" \o title)
    /\ nodesFile' = newF
    /\ newF' = <<>>
    /\ fPos' = 0
    /\ title' = "Elements"
    /\ pc' = "seekForHeader"
    /\ UNCHANGED <<vertVars, deriveVars, partedVars, cls, fLines, gmshStderr, version>>

IsolateElementsEnd ==
    /\ pc = "isolateData"
    /\ title = "Elements"
    /\ Contains(readline, "$End" \o title)
    /\ elemsFile' = newF
    /\ newF' = <<>>
    /\ fPos' = 0
    /\ pc' = "constructed"
    /\ UNCHANGED <<vertVars, deriveVars, part, cls, fLines, gmshStderr, version, title,
                   nodesFile>>

CtorNext ==
    \/ SeekEOF
    \/ SeekContinue
    \/ SeekFound
    \/ GetMetaData
    \/ GetMetaDataFails
    \/ CheckGmshVersion
    \/ CheckGmshVersionRaises
    \/ IsolateCopy
    \/ IsolateNodesEnd
    \/ IsolateElementsEnd

SpecCtor == CtorInit /\ [][CtorNext]_vars

(* The interpreter keeps running the loop it is in: a step that can be     *)
(* taken is taken.                                                         *)
SpecCtorLive == SpecCtor /\ WF_vars(CtorNext)

(* ---------------------------------------------------------------------- *)
(* Inputs of the vertex passes: the isolated node block                    *)
(* ---------------------------------------------------------------------- *)
(* The face derivation, the element classification and the constructor     *)
(* are not running.                                                        *)
DeriveIdle ==
    /\ dimensions = 2
    /\ cellsToVertIDs = <<>>
    /\ shapeTypes = <<>>
    /\ numCells = 0
    /\ maxFaces = 0
    /\ cellIdx = 0
    /\ faceIdx = 0
    /\ faces = <<>>
    /\ currNumFaces = 0
    /\ cellsToFaces = <<>>
    /\ facesDict = <<>>
    /\ uniqueFaces = <<>>
    /\ facesToVOut = <<>>
    /\ cellsToFOut = <<>>

PartedIdle ==
    /\ elemsFile = <<>>
    /\ part = <<>>

CtorIdle ==
    /\ fLines = <<>>
    /\ fPos = 0
    /\ gmshStderr = <<>>
    /\ version = <<>>
    /\ title = ""
    /\ newF = <<>>

(* Gmsh numbers the nodes from 1.                                          *)
NodeIDs == 1..MaxVert

(* The three coordinates of the node record of id (floats in the file,     *)
(* told apart here by node and by axis).                                   *)
CoordsOf(id) == <<10 * id, 10 * id + 1, 10 * id + 2>>

NodeRecord(id) == Numbers(<<id>> \o CoordsOf(id))

(* A node block: the count line, then one record per node.                 *)
NodeBlock(ids) ==
    <<Numbers(<<Len(ids)>>)>> \o [i \in 1..Len(ids) |-> NodeRecord(ids[i])]

(* Pairwise distinct VertexIDs in any order.                               *)
IDLists ==
    {ids \in UNION {[1..n -> NodeIDs] : n \in 0..MaxVert} :
        \A i, j \in 1..Len(ids) : i # j => ids[i] # ids[j]}

(* What nx.empty leaves in a slot that is never written.                   *)
EmptyInts == {0, 1}

VertsInit ==
    /\ pc = "vertexCoordsAndMap"
    /\ cls = "MshFile"
    /\ coordDimensions \in {2, 3}
    /\ \E ids \in IDLists : nodesFile = NodeBlock(ids)
    /\ cellsToGmshVerts = <<>>
    /\ allVerts = <<>>
    /\ nodeCount = 0
    /\ nodePos = 0
    /\ vertexCoords = <<>>
    /\ vertexToIdx = <<>>
    /\ vertGIDtoIdx = <<>>
    /\ DeriveIdle
    /\ PartedIdle
    /\ CtorIdle

(* ---------------------------------------------------------------------- *)
(* MshFile._vertexCoordsAndMap                                             *)
(* ---------------------------------------------------------------------- *)
(* nx.genfromtxt(fname, skiprows=1): the rows after the count line.  The   *)
(* result is squeezed: it is two-dimensional only from two rows on.        *)
genfromtxt(file) == [i \in 1..(Len(file) - 1) |-> file[i + 1].nums]

(* The position written last for id by vertexToIdx[vertexIDs] = arange.    *)
LastPos(vertexIDs, id) == SetMax({i \in DOMAIN vertexIDs : vertexIDs[i] = id}) - 1

(* rows[:, lo:].transpose()[:n]                                            *)
TransposeFrom(rows, lo, n) ==
    [d \in 1..n |-> [i \in 1..Len(rows) |-> rows[i][lo + d]]]

(* gen[:, 1:] and gen[:, :1] need a two-dimensional array.                 *)
VertexCoordsAndMapRaises ==
    /\ pc = "vertexCoordsAndMap"
    /\ Len(genfromtxt(nodesFile)) < 2
    /\ pc' = "IndexError"
    /\ UNCHANGED <<deriveVars, partedVars, ctorVars, vertVars>>

VertexCoordsAndMapNoStrip ==
    /\ pc = "vertexCoordsAndMap"
    /\ Len(genfromtxt(nodesFile)) >= 2
    /\ LET gen == genfromtxt(nodesFile)
           vertexIDs == [i \in 1..Len(gen) |-> gen[i][1]]
           size == SetMax(Range(vertexIDs)) + 1
       IN  /\ \E g \in [1..size -> EmptyInts] :
                 vertexToIdx' =
                     [k \in 1..size |->
                         IF (k - 1) \in Range(vertexIDs)
                         THEN LastPos(vertexIDs, k - 1)
                         ELSE g[k]]
           /\ vertexCoords' = TransposeFrom(gen, 0, coordDimensions)
    /\ pc' = "vertsReturned"
    /\ UNCHANGED <<deriveVars, partedVars, ctorVars, coordDimensions,
                   cellsToGmshVerts, allVerts, nodeCount, nodePos, vertGIDtoIdx>>

(* vertexToIdx is nx.empty(vertexIDs.max() + 1): slot id holds the row of  *)
(* id, a slot of no node holds whatever the memory held.                   *)
VertexCoordsAndMap ==
    /\ pc = "vertexCoordsAndMap"
    /\ Len(genfromtxt(nodesFile)) >= 2
    /\ LET gen == genfromtxt(nodesFile)
           vertexIDs == [i \in 1..Len(gen) |-> gen[i][1]]
           size == SetMax(Range(vertexIDs)) + 1
       IN  /\ \E g \in [1..size -> EmptyInts] :
                 vertexToIdx' =
                     [k \in 1..size |->
                         IF (k - 1) \in Range(vertexIDs)
                         THEN LastPos(vertexIDs, k - 1)
                         ELSE g[k]]
           /\ vertexCoords' = TransposeFrom(gen, 1, coordDimensions)
    /\ pc' = "vertsReturned"
    /\ UNCHANGED <<deriveVars, partedVars, ctorVars, coordDimensions,
                   cellsToGmshVerts, allVerts, nodeCount, nodePos, vertGIDtoIdx>>

VertsNext ==
    \/ VertexCoordsAndMap
    \/ VertexCoordsAndMapRaises

SpecVerts == VertsInit /\ [][VertsNext]_vars

(* ---------------------------------------------------------------------- *)
(* Inputs of PartedMshFile._vertexCoordsAndMap                             *)
(* ---------------------------------------------------------------------- *)
(* The local (owned plus ghost) cells in Gmsh VertexIDs: distinct          *)
(* triangles, each written in ascending VertexID order.                    *)
GmshCells ==
    {c \in [1..3 -> NodeIDs] : c[1] < c[2] /\ c[2] < c[3]}

CellKey(c) == (100 * c[1]) + (10 * c[2]) + c[3]

GmshCellLists ==
    {cs \in UNION {[1..n -> GmshCells] : n \in 0..MaxCells} :
        \A i, j \in 1..Len(cs) : i < j => CellKey(cs[i]) < CellKey(cs[j])}

(* The node stream: pairwise distinct VertexIDs, ascending or with one     *)
(* descent; any VertexID may be missing.                                   *)
Descents(ids) == {i \in 1..(Len(ids) - 1) : ids[i] > ids[i + 1]}

NodeStreams == {ids \in IDLists : Cardinality(Descents(ids)) <= 1}

(* What nx.empty leaves in a row that is never written.                    *)
EmptyFloats == {0, 1}

PartedVertsInit ==
    /\ pc = "partedVertexCoordsAndMap"
    /\ cls = "PartedMshFile"
    /\ coordDimensions \in {2, 3}
    /\ cellsToGmshVerts \in GmshCellLists
    /\ \E ids \in NodeStreams : nodesFile = NodeBlock(ids)
    /\ allVerts = <<>>
    /\ nodeCount = 0
    /\ nodePos = 0
    /\ vertexCoords = <<>>
    /\ vertexToIdx = <<>>
    /\ vertGIDtoIdx = <<>>
    /\ DeriveIdle
    /\ PartedIdle
    /\ CtorIdle

(* ---------------------------------------------------------------------- *)
(* PartedMshFile._vertexCoordsAndMap                                       *)
(* ---------------------------------------------------------------------- *)
(* [v for c in cellsToGmshVerts for v in c]                                *)
RECURSIVE flatten(_)
flatten(cells) ==
    IF cells = <<>> THEN <<>> ELSE Head(cells) \o flatten(Tail(cells))

(* nx.sort(nx.unique(...)): the distinct values in ascending order.        *)
RECURSIVE unique(_)
unique(s) ==
    IF s = <<>> THEN <<>>
    ELSE IF Head(s) \in Range(Tail(s)) THEN unique(Tail(s))
    ELSE <<Head(s)>> \o unique(Tail(s))

sortedUnique(s) == sorted(unique(s))

(* The index of v in the ascending list vs (0-based).                      *)
IndexIn(vs, v) == (CHOOSE i \in DOMAIN vs : vs[i] = v) - 1

(* allVerts[-1] of an empty array                                          *)
PartedVertsRaises ==
    /\ pc = "partedVertexCoordsAndMap"
    /\ flatten(cellsToGmshVerts) = <<>>
    /\ pc' = "IndexError"
    /\ UNCHANGED <<deriveVars, partedVars, ctorVars, vertVars>>

PartedVertsStartZeroMap ==
    /\ pc = "partedVertexCoordsAndMap"
    /\ flatten(cellsToGmshVerts) # <<>>
    /\ LET verts == sortedUnique(flatten(cellsToGmshVerts))
           maxVertIdx == verts[Len(verts)] + 1
       IN  /\ allVerts' = verts
           /\ vertGIDtoIdx' =
                  [k \in 1..maxVertIdx |->
                      IF (k - 1) \in Range(verts) THEN IndexIn(verts, k - 1) ELSE 0]
           /\ \E g \in EmptyFloats :
                 vertexCoords' =
                     [r \in 1..Len(verts) |-> [d \in 1..coordDimensions |-> g]]
    /\ nodeCount' = 0
    /\ nodePos' = 1
    /\ pc' = "nodeLoop"
    /\ UNCHANGED <<deriveVars, partedVars, ctorVars, coordDimensions,
                   cellsToGmshVerts, vertexToIdx>>

(* Lines 388-399: the sorted distinct VertexIDs, the map (-1 where no      *)
(* local cell refers to the id), the uninitialised coordinate rows, and    *)
(* the count line skipped.                                                 *)
PartedVertsStart ==
    /\ pc = "partedVertexCoordsAndMap"
    /\ flatten(cellsToGmshVerts) # <<>>
    /\ LET verts == sortedUnique(flatten(cellsToGmshVerts))
           maxVertIdx == verts[Len(verts)] + 1
       IN  /\ allVerts' = verts
           /\ vertGIDtoIdx' =
                  [k \in 1..maxVertIdx |->
                      IF (k - 1) \in Range(verts) THEN IndexIn(verts, k - 1) ELSE -1]
           /\ \E g \in EmptyFloats :
                 vertexCoords' =
                     [r \in 1..Len(verts) |-> [d \in 1..coordDimensions |-> g]]
    /\ nodeCount' = 0
    /\ nodePos' = 1
    /\ pc' = "nodeLoop"
    /\ UNCHANGED <<deriveVars, partedVars, ctorVars, coordDimensions,
                   cellsToGmshVerts, vertexToIdx>>

(* One turn of `for node in self.nodesFile`: the record is captured when   *)
(* its id is the smallest id still wanted; the loop breaks when no id is   *)
(* wanted any more.                                                        *)
PartedVertsNode ==
    /\ pc = "nodeLoop"
    /\ nodePos < Len(nodesFile)
    /\ LET line == nodesFile[nodePos + 1].nums
           nodeID == line[1]
           match == nodeID = allVerts[1]
           rest == IF match THEN Tail(allVerts) ELSE allVerts
       IN  /\ vertexCoords' =
                  IF match
                  THEN [vertexCoords EXCEPT ![nodeCount + 1] =
                            Slice(line, 1, coordDimensions + 1)]
                  ELSE vertexCoords
           /\ nodeCount' = IF match THEN nodeCount + 1 ELSE nodeCount
           /\ allVerts' = rest
           /\ pc' = IF Len(rest) = 0 THEN "nodeLoopDone" ELSE "nodeLoop"
    /\ nodePos' = nodePos + 1
    /\ UNCHANGED <<deriveVars, partedVars, ctorVars, coordDimensions,
                   cellsToGmshVerts, vertexToIdx, vertGIDtoIdx>>

(* The node file is exhausted: the for loop ends without a break.          *)
PartedVertsExhausted ==
    /\ pc = "nodeLoop"
    /\ nodePos >= Len(nodesFile)
    /\ pc' = "nodeLoopDone"
    /\ UNCHANGED <<deriveVars, partedVars, ctorVars, vertVars>>

(* return vertexCoords.transpose(), vertGIDtoIdx                           *)
PartedVertsReturn ==
    /\ pc = "nodeLoopDone"
    /\ vertexCoords' =
           [d \in 1..coordDimensions |->
               [r \in 1..Len(vertexCoords) |-> vertexCoords[r][d]]]
    /\ pc' = "partedVertsReturned"
    /\ UNCHANGED <<deriveVars, partedVars, ctorVars, coordDimensions,
                   cellsToGmshVerts, allVerts, nodeCount, nodePos,
                   vertexToIdx, vertGIDtoIdx>>

PartedVertsNext ==
    \/ PartedVertsStart
    \/ PartedVertsRaises
    \/ PartedVertsNode
    \/ PartedVertsExhausted
    \/ PartedVertsReturn

SpecPartedVerts == PartedVertsInit /\ [][PartedVertsNext]_vars

(* ---------------------------------------------------------------------- *)
(* Vocabulary of the face-derivation properties                            *)
(* ---------------------------------------------------------------------- *)
(* Two vertex tuples are the same face when every vertex occurs equally    *)
(* often in both, i.e. when their sorted tuples are equal.                 *)
Occurrences(f, v) == Cardinality({i \in DOMAIN f : f[i] = v})

SameFace(f, g) ==
    /\ Len(f) = Len(g)
    /\ Range(f) = Range(g)
    /\ \A v \in Range(f) : Occurrences(f, v) = Occurrences(g, v)

FacesOf(c) == numFacesForShape(dimensions)[shapeTypes[c]]

(* The i-th candidate face of cell c (both 1-based): the cyclic window.    *)
Candidate(c, i) ==
    [j \in 1..dimensions |->
        cellsToVertIDs[c][(((i - 1) + (j - 1)) % Len(cellsToVertIDs[c])) + 1]]

Slots == {<<c, i>> \in (1..numCells) \X (1..4) : i <= FacesOf(c)}

(* The slots the loop has already filled.                                  *)
DoneSlots ==
    IF pc \notin {"cell", "face", "derived"} THEN {}
    ELSE {sl \in Slots :
             \/ sl[1] - 1 < cellIdx
             \/ pc = "face" /\ sl[1] - 1 = cellIdx /\ sl[2] - 1 < faceIdx}

IsTriangle(c) == shapeTypes[c] = 2 /\ Len(cellsToVertIDs[c]) = 3

SharedVerts(c, d) == Range(cellsToVertIDs[c]) \cap Range(cellsToVertIDs[d])

(* The loop stands between two cells, or has returned: the cells before    *)
(* cellIdx have been processed completely.                                 *)
AfterCells == pc \in {"cell", "derived"}

(* C1: after any number of cells has been processed, no two unique faces   *)
(* have the same sorted vertex tuple, two filled slots whose candidate     *)
(* faces have the same sorted tuple hold the same FaceID, and two          *)
(* triangles that share exactly one edge yield 5 faces.                    *)
C1_NoDuplicateFaces ==
    /\ \A f, g \in 1..Len(uniqueFaces) :
          f # g => ~SameFace(uniqueFaces[f], uniqueFaces[g])
    /\ AfterCells =>
          \A a, b \in DoneSlots :
              SameFace(Candidate(a[1], a[2]), Candidate(b[1], b[2]))
                  => cellsToFaces[a[1]][a[2]] = cellsToFaces[b[1]][b[2]]
    /\ (pc = "derived" /\ dimensions = 2 /\ numCells = 2
            /\ IsTriangle(1) /\ IsTriangle(2)
            /\ Cardinality(SharedVerts(1, 2)) = 2)
          => /\ Len(uniqueFaces) = 5
             /\ \E i, j \in 1..3 :
                   /\ Range(Candidate(1, i)) = SharedVerts(1, 2)
                   /\ Range(Candidate(2, j)) = SharedVerts(1, 2)
                   /\ cellsToFaces[1][i] = cellsToFaces[2][j]

C1_Witness ==
    /\ pc = "derived"
    /\ dimensions = 2
    /\ cellsToVertIDs = <<(<<0, 1, 2>>), (<<1, 3, 2>>)>>
    /\ shapeTypes = <<2, 2>>
    /\ Len(uniqueFaces) = 5
    /\ cellsToFaces[1][2] = cellsToFaces[2][3]

(* C2: after any number of cells has been processed, the face stored at    *)
(* the FaceID of a filled slot is the slot's candidate face up to vertex   *)
(* order, every unique face is referenced by a filled slot, and the stored *)
(* faces and the candidate faces are the same set of sorted tuples.        *)
C2_RoundTrip ==
    AfterCells =>
    /\ \A sl \in DoneSlots :
          /\ cellsToFaces[sl[1]][sl[2]] \in 0..(Len(uniqueFaces) - 1)
          /\ SameFace(uniqueFaces[cellsToFaces[sl[1]][sl[2]] + 1],
                      Candidate(sl[1], sl[2]))
    /\ {cellsToFaces[sl[1]][sl[2]] : sl \in DoneSlots}
          = 0..(Len(uniqueFaces) - 1)
    /\ {sorted(uniqueFaces[cellsToFaces[sl[1]][sl[2]] + 1]) : sl \in DoneSlots}
          = {sorted(Candidate(sl[1], sl[2])) : sl \in DoneSlots}

C2_Witness ==
    /\ pc = "derived"
    /\ numCells = 2
    /\ \E i, j \in 1..4 :
          /\ <<1, i>> \in Slots /\ <<2, j>> \in Slots
          /\ cellsToFaces[1][i] = cellsToFaces[2][j]
          /\ Candidate(1, i) # Candidate(2, j)
          /\ uniqueFaces[cellsToFaces[2][j] + 1] = Candidate(1, i)

Done(c, i) == <<c, i>> \in DoneSlots

(* The candidate faces of the filled slots, cells in input order and slots *)
(* in ascending order, keeping the first occurrence of every face.         *)
RECURSIVE FirstSeenFrom(_, _, _)
FirstSeenFrom(c, i, acc) ==
    IF c > numCells \/ ~Done(c, i) THEN acc
    ELSE LET cand == Candidate(c, i)
             acc2 == IF \E f \in 1..Len(acc) : SameFace(acc[f], cand)
                     THEN acc ELSE Append(acc, cand)
         IN IF i < FacesOf(c) THEN FirstSeenFrom(c, i + 1, acc2)
            ELSE FirstSeenFrom(c + 1, 1, acc2)

C3_State ==
    /\ currNumFaces = Len(uniqueFaces)
    /\ Cardinality(DOMAIN facesDict) = Len(uniqueFaces)
    /\ {facesDict[k] : k \in DOMAIN facesDict} = 0..(Len(uniqueFaces) - 1)
    /\ {cellsToFaces[sl[1]][sl[2]] : sl \in DoneSlots} = 0..(Len(uniqueFaces) - 1)
    /\ \A f \in 1..Len(uniqueFaces) : facesDict[KeyStr(uniqueFaces[f])] = f - 1
    /\ uniqueFaces = FirstSeenFrom(1, 1, <<>>)

C3_Step ==
    /\ \A k \in DOMAIN facesDict :
          k \in DOMAIN facesDict' /\ facesDict'[k] = facesDict[k]
    /\ Len(uniqueFaces') >= Len(uniqueFaces)
    /\ \A f \in 1..Len(uniqueFaces) : uniqueFaces'[f] = uniqueFaces[f]

(* C3: at every point of the loop the FaceIDs handed out are 0..F-1 with   *)
(* F the length of the unique-face list and the size of the map; an ID     *)
(* once given to a key never changes; IDs follow first-seen order and the  *)
(* face is stored in the vertex order in which it was first generated.     *)
C3_DenseStableFirstSeen == [](C3_State) /\ [][C3_Step]_vars

C3_Witness ==
    /\ pc = "derived"
    /\ dimensions = 2
    /\ cellsToVertIDs = <<(<<0, 3, 1>>), (<<0, 1, 2>>)>>
    /\ uniqueFaces = <<(<<0, 3>>), (<<3, 1>>), (<<1, 0>>), (<<1, 2>>), (<<2, 0>>)>>
    /\ cellsToFaces = <<(<<0, 1, 2>>), (<<2, 3, 4>>)>>

(* C4: the table has one row per cell, every row has maxFaces entries,     *)
(* maxFaces is the largest face count of the shapes present; a processed   *)
(* cell with k faces holds FaceIDs in slots 0..k-1 and -1 in the others;   *)
(* the returned array is that table with cells as columns and the slot     *)
(* axis reversed.                                                          *)
C4_Padding ==
    pc \in {"cell", "face", "derived"} =>
        /\ Len(cellsToFaces) = numCells
        /\ \A c \in 1..numCells : FacesOf(c) <= maxFaces
        /\ \E c \in 1..numCells : FacesOf(c) = maxFaces
        /\ \A c \in 1..numCells :
              /\ Len(cellsToFaces[c]) = maxFaces
              /\ \A i \in (FacesOf(c) + 1)..maxFaces : cellsToFaces[c][i] = -1
              /\ c - 1 < cellIdx =>
                    \A i \in 1..FacesOf(c) :
                        cellsToFaces[c][i] \in 0..(Len(uniqueFaces) - 1)
        /\ pc = "derived" =>
              /\ Len(cellsToFOut) = maxFaces
              /\ \A r \in 1..maxFaces :
                    /\ Len(cellsToFOut[r]) = numCells
                    /\ \A c \in 1..numCells :
                          cellsToFOut[r][c] = cellsToFaces[c][maxFaces + 1 - r]

C4_Witness ==
    /\ pc = "derived"
    /\ shapeTypes = <<2, 3>>
    /\ Len(cellsToVertIDs[1]) = 3
    /\ maxFaces = 4
    /\ cellsToFaces[1][4] = -1
    /\ \A i \in 1..3 : cellsToFaces[1][i] >= 0
    /\ \A i \in 1..4 : cellsToFaces[2][i] >= 0

(* C5: _extractFaces returns facesPerCell faces, the i-th being the cyclic *)
(* window v[(i+j) mod n], j = 0..faceLength-1; the single quadrilateral    *)
(* [0,1,2,3] yields the faces (0,1),(1,2),(2,3),(3,0) with FaceIDs 0..3.   *)
C5_CyclicWindow ==
    /\ pc = "face" =>
          /\ Len(faces) = FacesOf(cellIdx + 1)
          /\ \A i \in 1..Len(faces) :
                /\ Len(faces[i]) = dimensions
                /\ \A j \in 1..dimensions :
                      faces[i][j] = cellsToVertIDs[cellIdx + 1]
                          [(((i - 1) + (j - 1)) % Len(cellsToVertIDs[cellIdx + 1])) + 1]
    /\ (pc = "derived" /\ dimensions = 2 /\ shapeTypes = <<3>>
            /\ cellsToVertIDs = <<(<<0, 1, 2, 3>>)>>)
          => /\ uniqueFaces = <<(<<0, 1>>), (<<1, 2>>), (<<2, 3>>), (<<3, 0>>)>>
             /\ cellsToFaces = <<(<<0, 1, 2, 3>>)>>

C5_Witness ==
    /\ pc = "derived"
    /\ dimensions = 2
    /\ shapeTypes = <<3>>
    /\ cellsToVertIDs = <<(<<0, 1, 2, 3>>)>>
    /\ Len(uniqueFaces) = 4

(* ---------------------------------------------------------------------- *)
(* Vocabulary of the partition properties                                  *)
(* ---------------------------------------------------------------------- *)
(* Number of leading negative values of a reversed tag list.               *)
NegRunLen(rev) ==
    CHOOSE n \in 0..Len(rev) :
        /\ \A i \in 1..n : rev[i] < 0
        /\ n = Len(rev) \/ rev[n + 1] >= 0

HasOwner(rev) == NegRunLen(rev) < Len(rev)

OwnerTag(rev) == rev[NegRunLen(rev) + 1]

GhostTags(rev) == {rev[i] : i \in 1..NegRunLen(rev)}

(* Process r has consumed one more line in this step.                      *)
Consumed(r) == part'[r].pos = part[r].pos + 1

WellFormed(line) == Supported(line) /\ HasOwner(RevTags(line))

OwnedFields(st) == <<st.cellsToVertIDs, st.shapeTypes, st.cellIDMap, st.numCells>>

GhostFields(st) == <<st.gCellsToVertIDs, st.gShapeTypes, st.ghostCellIDMap,
                     st.numGhostCells>>

OwnedAppended(r) ==
    /\ part'[r].numCells = part[r].numCells + 1
    /\ part'[r].cellsToVertIDs =
          Append(part[r].cellsToVertIDs, VertsOfLine(CurrLine(r)[1], CurrLine(r)[2]))
    /\ part'[r].shapeTypes = Append(part[r].shapeTypes, CurrLine(r)[2])
    /\ Len(part'[r].cellIDMap) = Len(part[r].cellIDMap) + 1

GhostAppended(r) ==
    /\ part'[r].numGhostCells = part[r].numGhostCells + 1
    /\ part'[r].gCellsToVertIDs =
          Append(part[r].gCellsToVertIDs, VertsOfLine(CurrLine(r)[1], CurrLine(r)[2]))
    /\ part'[r].gShapeTypes = Append(part[r].gShapeTypes, CurrLine(r)[2])
    /\ Len(part'[r].ghostCellIDMap) = Len(part[r].ghostCellIDMap) + 1

C6_Step ==
    \A r \in ProcIDs :
        (Consumed(r) /\ WellFormed(CurrLine(r))) =>
            LET rev == RevTags(CurrLine(r))
                isGhost == (0 - pidOf(r)) \in GhostTags(rev)
                isOwner == OwnerTag(rev) = pidOf(r)
            IN /\ (isGhost /\ ~isOwner) =>
                     /\ GhostAppended(r)
                     /\ OwnedFields(part'[r]) = OwnedFields(part[r])
               /\ (isOwner /\ ~isGhost) =>
                     /\ OwnedAppended(r)
                     /\ GhostFields(part'[r]) = GhostFields(part[r])
               /\ (~isGhost /\ ~isOwner) =>
                     /\ OwnedFields(part'[r]) = OwnedFields(part[r])
                     /\ GhostFields(part'[r]) = GhostFields(part[r])

(* C6: a supported element whose reversed tags are a negative run followed *)
(* by an owner o goes to the ghost lists only when -pid is in the run and  *)
(* o # pid, to the owned lists only when o = pid and -pid is not in the    *)
(* run, and changes no list and no count when neither -pid is in the run   *)
(* nor o = pid.                                                            *)
C6_Classification == [][C6_Step]_vars

(* Reversed tags [-2, 1]: ghost for pid 2, owned for pid 1; reversed tags  *)
(* [2]: owned for pid 2, neither for pid 1.                                *)
C6_Witness ==
    /\ pc = "parted"
    /\ Len(elemsFile) = 2
    /\ Supported(elemsFile[1]) /\ Supported(elemsFile[2])
    /\ RevTags(elemsFile[1]) = <<-2, 1>>
    /\ RevTags(elemsFile[2]) = <<2>>
    /\ part[0].pos = 2 /\ part[1].pos = 2
    /\ part[0].numCells = 1 /\ part[0].numGhostCells = 0
    /\ part[1].numCells = 1 /\ part[1].numGhostCells = 1

C7_Step ==
    \A r \in ProcIDs :
        (Consumed(r) /\ WellFormed(CurrLine(r))) =>
            LET rev == RevTags(CurrLine(r))
                isGhost == (0 - pidOf(r)) \in GhostTags(rev)
                isOwner == OwnerTag(rev) = pidOf(r)
            IN /\ isOwner <=> OwnedAppended(r)
               /\ (isGhost /\ isOwner) => (GhostAppended(r) /\ OwnedAppended(r))

(* C7: a supported element is added to the owned lists if and only if the  *)
(* first non-negative value after the negative run equals pid, whether or  *)
(* not -pid is in the run; with both it is added to both sets.             *)
C7_IndependentOwnership == [][C7_Step]_vars

(* The element of line k is in the owned (ghost) cell list of process r.   *)
InOwned(r, k) ==
    \E i \in 1..Len(part[r].cellsToVertIDs) :
        part[r].cellsToVertIDs[i] = VertsOfLine(elemsFile[k][1], elemsFile[k][2])

InGhost(r, k) ==
    \E i \in 1..Len(part[r].gCellsToVertIDs) :
        part[r].gCellsToVertIDs[i] = VertsOfLine(elemsFile[k][1], elemsFile[k][2])

Assigned(line) ==
    /\ WellFormed(line)
    /\ OwnerTag(RevTags(line)) \in 1..NProc
    /\ \A t \in GhostTags(RevTags(line)) : (0 - t) \in 1..NProc

(* C8: once every partition has read an element whose owner and ghost     *)
(* tags name partitions in 1..P, the element is in the owned or ghost set  *)
(* of at least one partition; no element is owned by two partitions.       *)
C8_CoverageAndUniqueOwner ==
    pc = "parted" =>
        \A k \in 1..Len(elemsFile) :
            /\ (Assigned(elemsFile[k]) /\ \A r \in ProcIDs : part[r].pos >= k)
                  => \E r \in ProcIDs : InOwned(r, k) \/ InGhost(r, k)
            /\ \A r1, r2 \in ProcIDs :
                  (InOwned(r1, k) /\ InOwned(r2, k)) => r1 = r2

C8_Witness ==
    /\ pc = "parted"
    /\ Len(elemsFile) = 2
    /\ RevTags(elemsFile[1]) = <<-1, -2, 1>>
    /\ RevTags(elemsFile[2]) = <<-1, 2>>
    /\ \A r \in ProcIDs : part[r].pc = "parsed"
    /\ InGhost(0, 1) /\ ~InOwned(0, 1) /\ InGhost(1, 1)
    /\ InOwned(1, 2) /\ InGhost(0, 2) /\ ~InOwned(0, 2)

SupportedBefore(r) == {k \in 1..part[r].pos : Supported(elemsFile[k])}

C9_State ==
    pc = "parted" =>
        \A r \in ProcIDs :
            LET st == part[r]
                first == SupportedBefore(r)
            IN /\ st.IDOffset =
                     IF first = {} THEN -1
                     ELSE elemsFile[CHOOSE k \in first : \A j \in first : k <= j][1]
               /\ Len(st.cellIDMap) = st.numCells
               /\ Len(st.cellsToVertIDs) = st.numCells
               /\ Len(st.shapeTypes) = st.numCells
               /\ Len(st.ghostCellIDMap) = st.numGhostCells
               /\ Len(st.gCellsToVertIDs) = st.numGhostCells
               /\ Len(st.gShapeTypes) = st.numGhostCells
               /\ \A i \in 1..Len(st.cellIDMap) :
                     \E k \in first :
                         /\ st.cellsToVertIDs[i] = VertsOfLine(elemsFile[k][1], elemsFile[k][2])
                         /\ st.cellIDMap[i] = elemsFile[k][1] - st.IDOffset
               /\ \A i \in 1..Len(st.ghostCellIDMap) :
                     \E k \in first :
                         /\ st.gCellsToVertIDs[i] = VertsOfLine(elemsFile[k][1], elemsFile[k][2])
                         /\ st.ghostCellIDMap[i] = elemsFile[k][1] - st.IDOffset

C9_Step ==
    \A r \in ProcIDs :
        /\ part[r].IDOffset # -1 => part'[r].IDOffset = part[r].IDOffset
        /\ Len(part'[r].cellIDMap) > Len(part[r].cellIDMap) =>
              /\ part'[r].IDOffset # -1
              /\ part'[r].cellIDMap =
                    Append(part[r].cellIDMap, CurrLine(r)[1] - part'[r].IDOffset)
        /\ Len(part'[r].ghostCellIDMap) > Len(part[r].ghostCellIDMap) =>
              /\ part'[r].IDOffset # -1
              /\ part'[r].ghostCellIDMap =
                    Append(part[r].ghostCellIDMap, CurrLine(r)[1] - part'[r].IDOffset)

(* C9: the ID offset is the element number of the first supported element  *)
(* of the block read so far and never changes once set; every id-map entry *)
(* is its cell's element number minus that offset; id map, cell list and   *)
(* shape list have the length given by the owned (ghost) count.            *)
C9_GlobalIDMap == [](C9_State) /\ [][C9_Step]_vars

(* The offset comes from an element of another partition.                  *)
C9_Witness ==
    /\ pc = "parted"
    /\ Len(elemsFile) = 2
    /\ part[0].pos = 2
    /\ part[0].IDOffset = 1
    /\ ~InOwned(0, 1) /\ ~InGhost(0, 1)
    /\ part[0].cellIDMap = <<1>>
    /\ part[0].numCells = 1

(* ---------------------------------------------------------------------- *)
(* Version gate                                                            *)
(* ---------------------------------------------------------------------- *)
SectionWork ==
    \/ pc \in {"seekForHeader", "isolateData", "constructed"}
    \/ pc = "EOFError" /\ title \in {"Nodes", "Elements"}

(* C10: with a header version below the minimum (2.0, 2.5 for the          *)
(* partitioned class) construction fails before the Nodes or Elements      *)
(* section is isolated; a version at or above the minimum never raises     *)
(* the version error.                                                      *)
C10_VersionGate ==
    pc \notin {"getMetaData", "readMetaData", "derive", "parted"} =>
        /\ (version # <<>> /\ version[1] < minVersion(cls)) => ~SectionWork
        /\ (version # <<>> /\ version[1] >= minVersion(cls)) => pc # "EnvironmentError"

(* ---------------------------------------------------------------------- *)
(* The vertex table of MshFile._vertexCoordsAndMap                         *)
(* ---------------------------------------------------------------------- *)
(* The VertexIDs of the node block, in block order.                        *)
BlockIDs == [i \in 1..(Len(nodesFile) - 1) |-> nodesFile[i + 1].nums[1]]

MapOf(id) == vertexToIdx[id + 1]

(* Column map[a] holds the first coordDimensions coordinates of a.         *)
ColumnHolds(a) ==
    /\ Len(vertexCoords) = coordDimensions
    /\ \A d \in 1..coordDimensions :
          vertexCoords[d][MapOf(a) + 1] = CoordsOf(a)[d]

MapIsBijection ==
    /\ \A a \in Range(BlockIDs) : MapOf(a) \in 0..(Len(BlockIDs) - 1)
    /\ \A a, b \in Range(BlockIDs) : a # b => MapOf(a) # MapOf(b)

RefIDs == Range(flatten(cellsToGmshVerts))

StreamAscending ==
    \A i, j \in 1..Len(BlockIDs) : i < j => BlockIDs[i] < BlockIDs[j]

AllPresent == RefIDs \subseteq Range(BlockIDs)

(* C12: when the node stream is not ascending, or lacks a referenced       *)
(* VertexID, the pass does not return; a returned coordinate array has     *)
(* every referenced vertex filled from a node record.                      *)
C12_MalformedNodeStream ==
    pc = "partedVertsReturned" =>
        /\ StreamAscending
        /\ AllPresent
        /\ nodeCount = Cardinality(RefIDs)

(* The number of referenced VertexIDs below v: its dense index.            *)
Rank(v) == Cardinality({u \in RefIDs : u < v})

StreamPos(v) == CHOOSE i \in 1..Len(BlockIDs) : BlockIDs[i] = v

MergePre ==
    /\ cls = "PartedMshFile"
    /\ RefIDs # {}
    /\ StreamAscending
    /\ AllPresent

C13_State ==
    MergePre =>
        /\ pc = "nodeLoop" => nodePos < Len(nodesFile)
        /\ pc \in {"nodeLoopDone", "partedVertsReturned"} =>
              /\ nodeCount = Cardinality(RefIDs)
              /\ nodePos = StreamPos(SetMax(RefIDs)) + 1
        /\ pc = "partedVertsReturned" =>
              /\ Len(vertGIDtoIdx) = SetMax(RefIDs) + 1
              /\ \A k \in 1..Len(vertGIDtoIdx) :
                    vertGIDtoIdx[k] = IF (k - 1) \in RefIDs THEN Rank(k - 1) ELSE -1
              /\ Len(vertexCoords) = coordDimensions
              /\ \A d \in 1..coordDimensions :
                    /\ Len(vertexCoords[d]) = Cardinality(RefIDs)
                    /\ \A v \in RefIDs :
                          vertexCoords[d][Rank(v) + 1] = CoordsOf(v)[d]

(* A turn of the node loop captures the record it reads exactly when the   *)
(* record's VertexID is referenced, into the row of the id's rank.         *)
C13_Step ==
    (MergePre /\ pc = "nodeLoop" /\ nodePos' = nodePos + 1) =>
        LET id == BlockIDs[nodePos]
        IN  IF id \in RefIDs
            THEN /\ nodeCount = Rank(id)
                 /\ nodeCount' = nodeCount + 1
                 /\ vertexCoords' =
                        [vertexCoords EXCEPT ![Rank(id) + 1] =
                            [d \in 1..coordDimensions |-> CoordsOf(id)[d]]]
            ELSE /\ nodeCount' = nodeCount
                 /\ vertexCoords' = vertexCoords

(* C13: with an ascending node stream that holds every referenced          *)
(* VertexID, the pass captures one record per referenced VertexID and no   *)
(* other, stores the record of the r-th smallest referenced VertexID at    *)
(* dense index r, which is what the map gives (-1 elsewhere), and reads no *)
(* record after the one of the largest referenced VertexID.                *)
C13_SinglePassMerge == [](C13_State) /\ [][C13_Step]_vars

C13_Witness ==
    /\ pc = "partedVertsReturned"
    /\ cellsToGmshVerts = <<(<<1, 3, 4>>)>>
    /\ BlockIDs = <<1, 2, 3, 4>>
    /\ coordDimensions = 2
    /\ nodeCount = 3
    /\ nodePos = 5
    /\ vertGIDtoIdx = <<-1, 0, -1, 1, 2>>
    /\ vertexCoords = <<(<<10, 30, 40>>), (<<11, 31, 41>>)>>

(* ---------------------------------------------------------------------- *)
(* The element filter and the vertex count of a retained element           *)
(* ---------------------------------------------------------------------- *)
RightLength(c) == Len(cellsToVertIDs[c]) = numVertsForShape[shapeTypes[c]]

(* C14: a retained element whose vertex list has not the vertex count of   *)
(* its shape is not passed on to the face derivation: the derivation never *)
(* runs on, and no face is generated from, a list of the wrong length.     *)
C14_VertexCountChecked ==
    /\ pc \in {"cell", "face", "derived"} => \A c \in 1..numCells : RightLength(c)
    /\ pc = "face" => RightLength(cellIdx + 1)

(* ---------------------------------------------------------------------- *)
(* The faces of a tetrahedron                                              *)
(* ---------------------------------------------------------------------- *)
IsTetrahedron(c) ==
    /\ dimensions = 3
    /\ shapeTypes[c] = 4
    /\ Len(cellsToVertIDs[c]) = 4
    /\ Cardinality(Range(cellsToVertIDs[c])) = 4

(* C16: the 4 cyclic windows of length 3 of a tetrahedron with 4 distinct  *)
(* vertices have pairwise distinct vertex sets, which are the four         *)
(* 3-element subsets of its vertices; a single tetrahedron yields 4 unique *)
(* faces and a row without sentinel.                                       *)
C16_TetrahedronFacets ==
    /\ (pc = "face" /\ IsTetrahedron(cellIdx + 1)) =>
          /\ Len(faces) = 4
          /\ \A i \in 1..Len(faces) : Len(faces[i]) = 3
          /\ \A i, j \in 1..Len(faces) : i # j => Range(faces[i]) # Range(faces[j])
          /\ {Range(faces[i]) : i \in 1..Len(faces)}
                = {S \in SUBSET Range(cellsToVertIDs[cellIdx + 1]) : Cardinality(S) = 3}
    /\ (pc = "derived" /\ numCells = 1 /\ IsTetrahedron(1)) =>
          /\ Len(uniqueFaces) = 4
          /\ maxFaces = 4
          /\ \A i \in 1..4 : cellsToFaces[1][i] = i - 1

C16_Witness ==
    /\ pc = "derived"
    /\ dimensions = 3
    /\ shapeTypes = <<4>>
    /\ cellsToVertIDs = <<(<<0, 3, 2, 1>>)>>
    /\ uniqueFaces = <<(<<0, 3, 2>>), (<<3, 2, 1>>), (<<2, 1, 0>>), (<<1, 0, 3>>)>>
    /\ cellsToFaces = <<(<<0, 1, 2, 3>>)>>

(* ---------------------------------------------------------------------- *)
(* Termination of the section extraction                                   *)
(* ---------------------------------------------------------------------- *)
(* C15: on every (finite) input the search for the opening marker ends,    *)
(* by EOFError when the marker is missing, and the copy loop of            *)
(* _isolateData, once entered, ends as well.                               *)
C15_ExtractionTerminates ==
    /\ [](Seeking /\ AtEOF => <>(pc = "EOFError"))
    /\ (pc = "isolateData") ~> (pc # "isolateData")

====
